---- MODULE Spec2Model ----
(***************************************************************************)
(* Platform dispatch layer of glutin for Unix-like systems                 *)
(* (src/platform/linux/mod.rs): the windowed Context (X11 or Wayland) and  *)
(* the HeadlessContext (OsMesa or EGL), their constructors and the         *)
(* operations that forward to the provider that built the instance.        *)
(*                                                                         *)
(* Providers (x11, wayland, egl, glx, osmesa) are outside this file: what  *)
(* a provider returns is a nondeterministic value, and every invocation of *)
(* a provider made by one operation is recorded in `calls`.                *)
(***************************************************************************)
EXTENDS Integers, Sequences, FiniteSets, TLC

\* Bound of the model: the number of live instances (Context and
\* HeadlessContext together).
MaxContexts == 2

VARIABLES
    contexts,    \* the live windowed Context values, in creation order
    headless,    \* the live HeadlessContext values, in creation order
    allocated,   \* number of native contexts the providers have created
    calls,       \* provider invocations made by the last operation, in order
    last         \* the last operation: its inputs and what it gave the caller

vars == <<contexts, headless, allocated, calls, last>>

----------------------------------------------------------------------------
\* Values

\* Result<T, E>
Ok(v) == [k |-> "Ok", v |-> v]
Err(e) == [k |-> "Err", v |-> e]

\* ()
Unit == [k |-> "()"]

\* CreationError::PlatformSpecific(msg.into())
PlatformSpecific(msg) == [kind |-> "PlatformSpecific", msg |-> msg]

\* CreationError values a provider's creation routine can return.
CreationErrors ==
    { [kind |-> "NotSupported", msg |-> "provider"],
      [kind |-> "OsError", msg |-> "provider"] }

\* ContextError values a provider's make_current / swap_buffers can return.
ContextErrors == { [kind |-> "IoError"], [kind |-> "ContextLost"] }

\* winit::EventsLoop: this file only asks it is_wayland().
EventsLoops == { [is_wayland |-> w] : w \in BOOLEAN }

\* winit::WindowBuilder, PixelFormatRequirements: passed through untouched.
WindowBuilders == { "window_builder" }
PfReqs == { "pf_default", "pf_srgb" }

\* The fields of GlAttributes other than sharing (version, profile, ...).
GlAttrRest == { "gl_3_3" }

\* (u32, u32) dimensions; width and height differ so that a swap shows.
Dimensions == { [width |-> 800, height |-> 600], [width |-> 1, height |-> 2] }

\* x11::GlContext, the nested context of an x11::Context.
GlContextTags == { "Glx", "Egl", "None" }

\* The provider context owned by a Context / HeadlessContext variant.
Inner(provider, id, gl) == [provider |-> provider, id |-> id, gl |-> gl]

\* enum Context { X(x11::Context), Wayland(wayland::Context) }
ContextX(ctxt) == [tag |-> "X", ctxt |-> ctxt]
ContextWayland(ctxt) == [tag |-> "Wayland", ctxt |-> ctxt]

\* One invocation of a provider: which provider, which operation, on which
\* provider context (self), with which arguments, and what it returned.
Call(provider, op, self, args, ret) ==
    [provider |-> provider, op |-> op, self |-> self, args |-> args, ret |-> ret]

\* Receiver of an associated function (no self).
NoSelf == [provider |-> "none"]

\* What an operation gives its caller: the provider calls it made and either
\* a returned value or a panic.
Returned(cs, v) == [calls |-> cs, outcome |-> "return", result |-> v]
Panicked(cs, why) == [calls |-> cs, outcome |-> "panic", result |-> [k |-> "panic", why |-> why]]

----------------------------------------------------------------------------
\* GlAttributes<S>

\* The result of a closure that ran into unreachable!().
Unreachable == [provider |-> "unreachable!"]

\* GlAttributes::map_sharing: applies the closure f (a function on the values
\* it can be handed) to the sharing target when there is one, and keeps every
\* other field.
map_sharing(gl_attr, f) ==
    [gl_attr EXCEPT !.sharing = IF gl_attr.sharing = <<>> THEN <<>>
                                ELSE <<f[gl_attr.sharing[1]]>>]

\* The values an Option holds: none or one.
Held(option) == { option[i] : i \in DOMAIN option }

\* |ctxt| match ctxt { &Context::X(_) => unreachable!(),
\*                     &Context::Wayland(ref ctxt) => ctxt }
WaylandSharing(ctxt) == IF ctxt.tag = "X" THEN Unreachable ELSE ctxt.ctxt

\* |ctxt| match ctxt { &Context::Wayland(_) => unreachable!(),
\*                     &Context::X(ref ctxt) => ctxt }
X11Sharing(ctxt) == IF ctxt.tag = "Wayland" THEN Unreachable ELSE ctxt.ctxt

----------------------------------------------------------------------------
\* Context::new

\* .map(|(window, context)| (window, Context::Wayland(context)))
WrapWayland_translating(ret) ==
    IF ret.k = "Ok"
    THEN Ok([window |-> ret.v.window, context |-> ContextWayland(ret.v.context)])
    ELSE Err(PlatformSpecific("wayland context creation failed"))
WrapWayland(ret) ==
    IF ret.k = "Ok"
    THEN Ok([window |-> ret.v.window, context |-> ContextWayland(ret.v.context)])
    ELSE ret

\* .map(|(window, context)| (window, Context::X(context)))
WrapX_asWayland(ret) ==
    IF ret.k = "Ok"
    THEN Ok([window |-> ret.v.window, context |-> ContextWayland(ret.v.context)])
    ELSE ret
WrapX(ret) ==
    IF ret.k = "Ok"
    THEN Ok([window |-> ret.v.window, context |-> ContextX(ret.v.context)])
    ELSE ret

\* Arguments handed to a windowed provider's creation routine.
NewArgs(window_builder, events_loop, pf_reqs, gl_attr) ==
    [window_builder |-> window_builder, events_loop |-> events_loop,
     pf_reqs |-> pf_reqs, gl_attr |-> gl_attr]

\* if let Some(&Context::X(_)) = gl_attr.sharing
SharesX_never(gl_attr) == FALSE
SharesX(gl_attr) == gl_attr.sharing # <<>> /\ gl_attr.sharing[1].tag = "X"

\* if let Some(&Context::Wayland(_)) = gl_attr.sharing
SharesWayland(gl_attr) == gl_attr.sharing # <<>> /\ gl_attr.sharing[1].tag = "Wayland"

\* provider[p] is what provider p's creation routine returns if it is invoked.
Context_new(window_builder, events_loop, pf_reqs, gl_attr, provider) ==
    IF events_loop.is_wayland
    THEN IF SharesX(gl_attr)
         THEN Returned(<<>>, Err(PlatformSpecific(
                  "Cannot share a wayland context with an X11 context")))
         ELSE LET attr == map_sharing(gl_attr,
                                  [ctxt \in Held(gl_attr.sharing) |-> WaylandSharing(ctxt)])
              IN  IF attr.sharing = <<Unreachable>>
                  THEN Panicked(<<>>, "unreachable")
                  ELSE Returned(
                         <<Call("wayland", "new", NoSelf,
                                NewArgs(window_builder, events_loop, pf_reqs, attr),
                                provider.wayland)>>,
                         WrapWayland(provider.wayland))
    ELSE IF SharesWayland(gl_attr)
         THEN Returned(<<>>, Err(PlatformSpecific(
                  "Cannot share a X11 context with an wayland context")))
         ELSE LET attr == map_sharing(gl_attr,
                                  [ctxt \in Held(gl_attr.sharing) |-> X11Sharing(ctxt)])
              IN  IF attr.sharing = <<Unreachable>>
                  THEN Panicked(<<>>, "unreachable")
                  ELSE Returned(
                         <<Call("x11", "new", NoSelf,
                                NewArgs(window_builder, events_loop, pf_reqs, attr),
                                provider.x11)>>,
                         WrapX(provider.x11))

\* What the two windowed providers' creation routines return when invoked, for
\* the native context number id: both can build one (the X11 provider with
\* any nested GlContext) or both fail.
NewRets(id) ==
    { [wayland |-> Ok([window |-> "window", context |-> Inner("wayland", id, "Egl")]),
       x11 |-> Ok([window |-> "window", context |-> Inner("x11", id, gl)])]
        : gl \in GlContextTags }
    \cup { [wayland |-> Err(e), x11 |-> Err(e)] : e \in CreationErrors }

\* Native contexts created by the provider calls of one operation: a windowed
\* provider's successful creation, or a successful pbuffer finalisation.
Allocations(cs) ==
    Cardinality({ i \in DOMAIN cs :
                    /\ \/ cs[i].op = "new" /\ cs[i].provider \in {"x11", "wayland"}
                       \/ cs[i].op = "finish_pbuffer"
                    /\ cs[i].ret.k = "Ok" })

\* The record kept of the last operation.
Op(type, op, self, args, r) ==
    [type |-> type, op |-> op, self |-> self, args |-> args,
     outcome |-> r.outcome, result |-> r.result]

ContextNew ==
    \E window_builder \in WindowBuilders, events_loop \in EventsLoops,
       pf_reqs \in PfReqs, rest \in GlAttrRest, target \in 0..Len(contexts) :
      \E provider \in NewRets(Len(contexts) + 1) :
        LET gl_attr == [sharing |-> IF target = 0 THEN <<>> ELSE <<contexts[target]>>,
                        rest |-> rest]
            r == Context_new(window_builder, events_loop, pf_reqs, gl_attr, provider)
            made == r.outcome = "return" /\ r.result.k = "Ok"
        IN  /\ made => Len(contexts) + Len(headless) < MaxContexts
            /\ contexts' = IF made THEN Append(contexts, r.result.v.context)
                           ELSE contexts
            /\ allocated' = allocated + Allocations(r.calls)
            /\ calls' = r.calls
            /\ last' = Op("Context", "new", 0,
                          [window_builder |-> window_builder, events_loop |-> events_loop,
                           pf_reqs |-> pf_reqs, gl_attr |-> gl_attr, target |-> target], r)
            /\ UNCHANGED headless

\* An operation through &self: the instances are left as they are.
Forward_retag(type, op, self, args, r) ==
    /\ calls' = r.calls
    /\ last' = Op(type, op, self, args, r)
    /\ contexts' = IF type = "Context"
                   THEN [contexts EXCEPT ![self].tag = IF @ = "X" THEN "Wayland" ELSE "X"]
                   ELSE contexts
    /\ UNCHANGED <<headless, allocated>>
Forward(type, op, self, args, r) ==
    /\ calls' = r.calls
    /\ last' = Op(type, op, self, args, r)
    /\ UNCHANGED <<contexts, headless, allocated>>

\* No arguments besides self.
NoArgs == [none |-> TRUE]

----------------------------------------------------------------------------
\* What the providers' operations can return.

ContextResults == { Ok(Unit) } \cup { Err(e) : e \in ContextErrors }
Bools == { [k |-> "bool", b |-> b] : b \in BOOLEAN }
Ptr(addr) == [k |-> "ptr", addr |-> addr]
Pointers == { Ptr(0), Ptr(4096) }
ProcNames == { "glClear", "glMissing" }
Apis == { [k |-> "Api", api |-> a] : a \in {"OpenGl", "OpenGlEs"} }
PixelFormats == { [k |-> "PixelFormat", color_bits |-> c] : c \in {24, 32} }

----------------------------------------------------------------------------
\* Context: resize and the forwarding operations

Context_resize_swapped(self, width, height) ==
    IF self.tag = "X"
    THEN Returned(<<>>, Unit)
    ELSE Returned(<<Call("wayland", "resize", self.ctxt,
                         [width |-> height, height |-> width], Unit)>>, Unit)
Context_resize(self, width, height) ==
    IF self.tag = "X"
    THEN Returned(<<>>, Unit)
    ELSE Returned(<<Call("wayland", "resize", self.ctxt,
                         [width |-> width, height |-> height], Unit)>>, Unit)

Context_make_current(self, ret) ==
    IF self.tag = "X"
    THEN Returned(<<Call("x11", "make_current", self.ctxt, NoArgs, ret)>>, ret)
    ELSE Returned(<<Call("wayland", "make_current", self.ctxt, NoArgs, ret)>>, ret)

Context_is_current(self, ret) ==
    IF self.tag = "X"
    THEN Returned(<<Call("x11", "is_current", self.ctxt, NoArgs, ret)>>, ret)
    ELSE Returned(<<Call("wayland", "is_current", self.ctxt, NoArgs, ret)>>, ret)

Context_get_proc_address(self, addr, ret) ==
    IF self.tag = "X"
    THEN Returned(<<Call("x11", "get_proc_address", self.ctxt, [addr |-> addr], ret)>>, ret)
    ELSE Returned(<<Call("wayland", "get_proc_address", self.ctxt, [addr |-> addr], ret)>>, ret)

Context_swap_buffers_misrouted(self, ret) ==
    Returned(<<Call("x11", "swap_buffers", self.ctxt, NoArgs, ret)>>, ret)
Context_swap_buffers(self, ret) ==
    IF self.tag = "X"
    THEN Returned(<<Call("x11", "swap_buffers", self.ctxt, NoArgs, ret)>>, ret)
    ELSE Returned(<<Call("wayland", "swap_buffers", self.ctxt, NoArgs, ret)>>, ret)

Context_get_api(self, ret) ==
    IF self.tag = "X"
    THEN Returned(<<Call("x11", "get_api", self.ctxt, NoArgs, ret)>>, ret)
    ELSE Returned(<<Call("wayland", "get_api", self.ctxt, NoArgs, ret)>>, ret)

Context_get_pixel_format(self, ret) ==
    IF self.tag = "X"
    THEN Returned(<<Call("x11", "get_pixel_format", self.ctxt, NoArgs, ret)>>, ret)
    ELSE Returned(<<Call("wayland", "get_pixel_format", self.ctxt, NoArgs, ret)>>, ret)

\* enum RawHandle { Glx(glx::ffi::GLXContext), Egl(egl::ffi::EGLContext) }
RawHandleGlx_asEgl(h) == [k |-> "RawHandle", tag |-> "Egl", handle |-> h]
RawHandleGlx(h) == [k |-> "RawHandle", tag |-> "Glx", handle |-> h]
RawHandleEgl(h) == [k |-> "RawHandle", tag |-> "Egl", handle |-> h]

\* What x11::Context::raw_handle returns: a reference to its nested GlContext.
GlContextOf(ctxt) == [k |-> "GlContext", tag |-> ctxt.gl, owner |-> ctxt.id]

\* handle is the native pointer the innermost context returns when asked.
Context_raw_handle(self, handle) ==
    IF self.tag = "X"
    THEN LET gl == GlContextOf(self.ctxt)
             outer == Call("x11", "raw_handle", self.ctxt, NoArgs, gl)
         IN  IF gl.tag = "Glx"
             THEN Returned(<<outer, Call("glx", "raw_handle", gl, NoArgs, handle)>>,
                           RawHandleGlx(handle))
             ELSE IF gl.tag = "Egl"
             THEN Returned(<<outer, Call("egl", "raw_handle", gl, NoArgs, handle)>>,
                           RawHandleEgl(handle))
             ELSE Panicked(<<outer>>, "panic!()")
    ELSE Returned(<<Call("wayland", "raw_handle", self.ctxt, NoArgs, handle)>>,
                  RawHandleEgl(handle))

ContextResize ==
    \E i \in DOMAIN contexts, d \in Dimensions :
        Forward("Context", "resize", i, [width |-> d.width, height |-> d.height],
                Context_resize(contexts[i], d.width, d.height))

ContextMakeCurrent ==
    \E i \in DOMAIN contexts, ret \in ContextResults :
        Forward("Context", "make_current", i, NoArgs,
                Context_make_current(contexts[i], ret))

ContextIsCurrent ==
    \E i \in DOMAIN contexts, ret \in Bools :
        Forward("Context", "is_current", i, NoArgs,
                Context_is_current(contexts[i], ret))

ContextGetProcAddress ==
    \E i \in DOMAIN contexts, addr \in ProcNames, ret \in Pointers :
        Forward("Context", "get_proc_address", i, [addr |-> addr],
                Context_get_proc_address(contexts[i], addr, ret))

ContextSwapBuffers ==
    \E i \in DOMAIN contexts, ret \in ContextResults :
        Forward("Context", "swap_buffers", i, NoArgs,
                Context_swap_buffers(contexts[i], ret))

ContextGetApi ==
    \E i \in DOMAIN contexts, ret \in Apis :
        Forward("Context", "get_api", i, NoArgs,
                Context_get_api(contexts[i], ret))

ContextGetPixelFormat ==
    \E i \in DOMAIN contexts, ret \in PixelFormats :
        Forward("Context", "get_pixel_format", i, NoArgs,
                Context_get_pixel_format(contexts[i], ret))

ContextRawHandle ==
    \E i \in DOMAIN contexts, handle \in Pointers :
        Forward("Context", "raw_handle", i, NoArgs,
                Context_raw_handle(contexts[i], handle))

----------------------------------------------------------------------------
\* HeadlessContext::new

\* enum HeadlessContext { OsMesa(OsMesaContext), Egl(egl::Context) }
HeadlessOsMesaOf(ctxt) == [tag |-> "OsMesa", ctxt |-> ctxt]
HeadlessEgl(ctxt) == [tag |-> "Egl", ctxt |-> ctxt]

\* |_| unreachable!()
HeadlessSharing(ctxt) == Unreachable

\* egl::NativeDisplay::Gbm(None)
GbmNone == [k |-> "Gbm", display |-> <<>>]

\* What GlxOrEgl::new, egl::Context::new and finish_pbuffer return when
\* invoked, for the native context number id: EGL is missing, or the first
\* or the second step fails, or all succeed.
Prototype == Ok([k |-> "ContextPrototype"])
HeadlessRets(id) ==
    { [backend |-> [egl |-> <<>>], proto |-> Prototype, finished |-> Ok(Inner("egl", id, "Egl"))],
      [backend |-> [egl |-> <<"libEGL">>], proto |-> Prototype, finished |-> Ok(Inner("egl", id, "Egl"))] }
    \cup { [backend |-> [egl |-> <<"libEGL">>], proto |-> Err(e), finished |-> Ok(Inner("egl", id, "Egl"))]
             : e \in CreationErrors }
    \cup { [backend |-> [egl |-> <<"libEGL">>], proto |-> Prototype, finished |-> Err(e)]
             : e \in CreationErrors }

\* let mut opengl = opengl.clone(); opengl.sharing = None;
ClearSharing_kept(opengl) == opengl
ClearSharing(opengl) == [opengl EXCEPT !.sharing = <<>>]

\* backend, proto and finished are what GlxOrEgl::new, egl::Context::new and
\* finish_pbuffer return when they are invoked.
HeadlessContext_new(dimensions, pf_reqs, opengl, platform, backend, proto, finished) ==
    LET cleared == ClearSharing(opengl)
        attr == map_sharing(cleared,
                            [ctxt \in Held(cleared.sharing) |-> HeadlessSharing(ctxt)])
        c1 == Call("x11", "GlxOrEgl::new", NoSelf, NoArgs, backend)
        c2 == Call("egl", "new", NoSelf,
                   [egl |-> backend.egl, pf_reqs |-> pf_reqs, opengl |-> attr,
                    native_display |-> GbmNone], proto)
        c3 == Call("egl", "finish_pbuffer", proto.v, dimensions, finished)
    IN  IF attr.sharing = <<Unreachable>>
        THEN Panicked(<<>>, "unreachable")
        ELSE IF backend.egl = <<>>
        THEN Panicked(<<c1>>, "unwrap on None")
        ELSE IF proto.k = "Err"
        THEN Panicked(<<c1, c2>>, "unwrap on Err")
        ELSE IF finished.k = "Err"
        THEN Panicked(<<c1, c2, c3>>, "unwrap on Err")
        ELSE Returned(<<c1, c2, c3>>, Ok(HeadlessEgl(finished.v)))

\* #[derive(Clone, Default)] struct PlatformSpecificHeadlessBuilderAttributes;
PlatformAttrs == [k |-> "PlatformSpecificHeadlessBuilderAttributes"]

HeadlessNew ==
    \E dimensions \in Dimensions, pf_reqs \in PfReqs, rest \in GlAttrRest,
       target \in 0..Len(headless) :
      \E p \in HeadlessRets(Len(headless) + 1) :
        LET opengl == [sharing |-> IF target = 0 THEN <<>> ELSE <<headless[target]>>,
                       rest |-> rest]
            r == HeadlessContext_new(dimensions, pf_reqs, opengl, PlatformAttrs,
                                     p.backend, p.proto, p.finished)
            made == r.outcome = "return" /\ r.result.k = "Ok"
        IN  /\ made => Len(contexts) + Len(headless) < MaxContexts
            /\ headless' = IF made THEN Append(headless, r.result.v) ELSE headless
            /\ allocated' = allocated + Allocations(r.calls)
            /\ calls' = r.calls
            /\ last' = Op("HeadlessContext", "new", 0,
                          [dimensions |-> dimensions, pf_reqs |-> pf_reqs,
                           opengl |-> opengl, target |-> target], r)
            /\ UNCHANGED contexts

\* The OsMesa variant is never built by HeadlessContext::new; a value of it is
\* made with the variant constructor around an OsMesaContext.
HeadlessOsMesa ==
    /\ Len(contexts) + Len(headless) < MaxContexts
    /\ headless' = Append(headless, HeadlessOsMesaOf(Inner("osmesa", Len(headless) + 1, "OsMesa")))
    /\ allocated' = allocated + 1
    /\ calls' = <<>>
    /\ last' = Op("HeadlessContext", "OsMesa", 0, NoArgs,
                  Returned(<<>>, HeadlessOsMesaOf(Inner("osmesa", Len(headless) + 1, "OsMesa"))))
    /\ UNCHANGED contexts

----------------------------------------------------------------------------
\* HeadlessContext: the forwarding operations

HeadlessContext_make_current(self, ret) ==
    IF self.tag = "OsMesa"
    THEN Returned(<<Call("osmesa", "make_current", self.ctxt, NoArgs, ret)>>, ret)
    ELSE Returned(<<Call("egl", "make_current", self.ctxt, NoArgs, ret)>>, ret)

HeadlessContext_is_current(self, ret) ==
    IF self.tag = "OsMesa"
    THEN Returned(<<Call("osmesa", "is_current", self.ctxt, NoArgs, ret)>>, ret)
    ELSE Returned(<<Call("egl", "is_current", self.ctxt, NoArgs, ret)>>, ret)

HeadlessContext_get_proc_address(self, addr, ret) ==
    IF self.tag = "OsMesa"
    THEN Returned(<<Call("osmesa", "get_proc_address", self.ctxt, [addr |-> addr], ret)>>, ret)
    ELSE Returned(<<Call("egl", "get_proc_address", self.ctxt, [addr |-> addr], ret)>>, ret)

HeadlessContext_swap_buffers(self, ret) ==
    IF self.tag = "OsMesa"
    THEN Returned(<<Call("osmesa", "swap_buffers", self.ctxt, NoArgs, ret)>>, ret)
    ELSE Returned(<<Call("egl", "swap_buffers", self.ctxt, NoArgs, ret)>>, ret)

HeadlessContext_get_api(self, ret) ==
    IF self.tag = "OsMesa"
    THEN Returned(<<Call("osmesa", "get_api", self.ctxt, NoArgs, ret)>>, ret)
    ELSE Returned(<<Call("egl", "get_api", self.ctxt, NoArgs, ret)>>, ret)

HeadlessContext_get_pixel_format(self, ret) ==
    IF self.tag = "OsMesa"
    THEN Returned(<<Call("osmesa", "get_pixel_format", self.ctxt, NoArgs, ret)>>, ret)
    ELSE Returned(<<Call("egl", "get_pixel_format", self.ctxt, NoArgs, ret)>>, ret)

\* handle as *mut c_void: the cast keeps the address.
AsMutCVoid(handle) == Ptr(handle.addr)

HeadlessContext_raw_handle(self, ret) ==
    LET handle == ret
        cs == IF self.tag = "OsMesa"
              THEN <<Call("osmesa", "raw_handle", self.ctxt, NoArgs, ret)>>
              ELSE <<Call("egl", "raw_handle", self.ctxt, NoArgs, ret)>>
    IN  Returned(cs, AsMutCVoid(handle))

HeadlessMakeCurrent ==
    \E i \in DOMAIN headless, ret \in ContextResults :
        Forward("HeadlessContext", "make_current", i, NoArgs,
                HeadlessContext_make_current(headless[i], ret))

HeadlessIsCurrent ==
    \E i \in DOMAIN headless, ret \in Bools :
        Forward("HeadlessContext", "is_current", i, NoArgs,
                HeadlessContext_is_current(headless[i], ret))

HeadlessGetProcAddress ==
    \E i \in DOMAIN headless, addr \in ProcNames, ret \in Pointers :
        Forward("HeadlessContext", "get_proc_address", i, [addr |-> addr],
                HeadlessContext_get_proc_address(headless[i], addr, ret))

HeadlessSwapBuffers ==
    \E i \in DOMAIN headless, ret \in ContextResults :
        Forward("HeadlessContext", "swap_buffers", i, NoArgs,
                HeadlessContext_swap_buffers(headless[i], ret))

HeadlessGetApi ==
    \E i \in DOMAIN headless, ret \in Apis :
        Forward("HeadlessContext", "get_api", i, NoArgs,
                HeadlessContext_get_api(headless[i], ret))

HeadlessGetPixelFormat ==
    \E i \in DOMAIN headless, ret \in PixelFormats :
        Forward("HeadlessContext", "get_pixel_format", i, NoArgs,
                HeadlessContext_get_pixel_format(headless[i], ret))

HeadlessRawHandle ==
    \E i \in DOMAIN headless, ret \in Pointers :
        Forward("HeadlessContext", "raw_handle", i, NoArgs,
                HeadlessContext_raw_handle(headless[i], ret))

----------------------------------------------------------------------------
Init ==
    /\ contexts = <<>>
    /\ headless = <<>>
    /\ allocated = 0
    /\ calls = <<>>
    /\ last = [type |-> "none", op |-> "none", self |-> 0, args |-> Unit,
               outcome |-> "return", result |-> Unit]

Next ==
    \/ ContextNew
    \/ ContextResize
    \/ ContextMakeCurrent
    \/ ContextIsCurrent
    \/ ContextGetProcAddress
    \/ ContextSwapBuffers
    \/ ContextGetApi
    \/ ContextGetPixelFormat
    \/ ContextRawHandle
    \/ HeadlessNew
    \/ HeadlessOsMesa
    \/ HeadlessMakeCurrent
    \/ HeadlessIsCurrent
    \/ HeadlessGetProcAddress
    \/ HeadlessSwapBuffers
    \/ HeadlessGetApi
    \/ HeadlessGetPixelFormat
    \/ HeadlessRawHandle

Spec == Init /\ [][Next]_vars

----------------------------------------------------------------------------
\* Properties

IsContextNew == last.type = "Context" /\ last.op = "new"
IsHeadlessNew == last.type = "HeadlessContext" /\ last.op = "new"
Succeeded == last.outcome = "return" /\ last.result.k = "Ok"

\* The provider of the detected session, and the tag of a Context built by it.
SessionProvider == IF last.args.events_loop.is_wayland THEN "wayland" ELSE "x11"
SessionTag == IF last.args.events_loop.is_wayland THEN "Wayland" ELSE "X"

\* The last operation was a windowed creation whose sharing target is backed
\* by the other backend than the detected session.
CrossBackend ==
    /\ IsContextNew
    /\ last.args.gl_attr.sharing # <<>>
    /\ last.args.gl_attr.sharing[1].tag # SessionTag

\* The provider a variant dispatches to.
ProviderOf(tag) ==
    IF tag = "X" THEN "x11"
    ELSE IF tag = "Wayland" THEN "wayland"
    ELSE IF tag = "OsMesa" THEN "osmesa"
    ELSE "egl"

\* The instance the last operation was called on.
Receiver == IF last.type = "Context" THEN contexts[last.self] ELSE headless[last.self]

ForwardingOps ==
    {"make_current", "is_current", "get_proc_address", "swap_buffers",
     "get_api", "get_pixel_format", "raw_handle"}

\* C1: a windowed creation whose sharing target is backed by the other
\* backend than the detected session returns Err(PlatformSpecific), invokes no
\* provider, and allocates no native resource.
C1_CrossBackendSharingRejected ==
    /\ [](CrossBackend =>
            /\ last.outcome = "return"
            /\ last.result.k = "Err"
            /\ last.result.v.kind = "PlatformSpecific"
            /\ calls = <<>>)
    /\ [][CrossBackend' =>
            /\ allocated' = allocated
            /\ contexts' = contexts
            /\ headless' = headless]_vars

C1_Witness ==
    /\ CrossBackend
    /\ last.args.events_loop.is_wayland
    /\ last.args.gl_attr.sharing[1].tag = "X"
    /\ last.result = Err(PlatformSpecific("Cannot share a wayland context with an X11 context"))

\* C2: a successful windowed creation returns the variant of the detected
\* session (Wayland session: Context::Wayland, X11 session: Context::X), built
\* from what that session's provider returned; the other provider is not
\* invoked.
C2_TagMatchesSession ==
    (IsContextNew /\ Succeeded) =>
        /\ last.result.v.context.tag = SessionTag
        /\ Len(calls) = 1
        /\ calls[1].provider = SessionProvider
        /\ calls[1].op = "new"
        /\ calls[1].ret.k = "Ok"
        /\ last.result.v.context.ctxt = calls[1].ret.v.context
        /\ last.result.v.context.ctxt.provider = SessionProvider
        /\ last.result.v.window = calls[1].ret.v.window
        /\ contexts[Len(contexts)] = last.result.v.context

C2_Witness ==
    /\ IsContextNew /\ Succeeded
    /\ ~last.args.events_loop.is_wayland
    /\ last.result.v.context.tag = "X"
    /\ Len(contexts) = 2
    /\ contexts[1].tag = "Wayland"

\* C3: HeadlessContext::new, with or without a sharing target, always gets as
\* far as the backend probe, hands the EGL provider empty sharing (the other
\* attributes as supplied), hands the requested dimensions to finish_pbuffer,
\* and on success returns the Egl variant around the finished context.
C3_HeadlessClearsSharing ==
    IsHeadlessNew =>
        /\ Len(calls) >= 1
        /\ calls[1].op = "GlxOrEgl::new"
        /\ Len(calls) >= 2 =>
              /\ calls[2].provider = "egl" /\ calls[2].op = "new"
              /\ calls[2].args.opengl.sharing = <<>>
              /\ calls[2].args.opengl.rest = last.args.opengl.rest
              /\ calls[2].args.pf_reqs = last.args.pf_reqs
        /\ Len(calls) >= 3 =>
              /\ calls[3].provider = "egl" /\ calls[3].op = "finish_pbuffer"
              /\ calls[3].args = last.args.dimensions
        /\ Succeeded =>
              /\ Len(calls) = 3
              /\ last.result.v.tag = "Egl"
              /\ last.result.v.ctxt = calls[3].ret.v

C3_Witness ==
    /\ IsHeadlessNew /\ Succeeded
    /\ last.args.opengl.sharing # <<>>
    /\ last.args.dimensions = [width |-> 800, height |-> 600]
    /\ calls[2].args.opengl.sharing = <<>>
    /\ calls[3].args = [width |-> 800, height |-> 600]
    /\ last.result.v.tag = "Egl"

\* One of the steps of headless creation failed: EGL is unavailable, or
\* egl::Context::new or finish_pbuffer returned an error.
HeadlessFailed ==
    /\ IsHeadlessNew
    /\ \E i \in DOMAIN calls :
          \/ calls[i].op = "GlxOrEgl::new" /\ calls[i].ret.egl = <<>>
          \/ calls[i].op \in {"new", "finish_pbuffer"} /\ calls[i].ret.k = "Err"

\* C4: when EGL is unavailable or the EGL provider's context creation or
\* pbuffer finalisation fails, HeadlessContext::new returns a CreationError
\* value to its caller, the provider's own error where there is one.
C4_HeadlessFailureIsTypedError ==
    HeadlessFailed =>
        /\ last.outcome = "return"
        /\ last.result.k = "Err"
        /\ \A i \in DOMAIN calls :
              (calls[i].op \in {"new", "finish_pbuffer"} /\ calls[i].ret.k = "Err")
                  => last.result = calls[i].ret

\* C5: when the sharing check passes and the chosen provider's creation
\* routine returns an error, Context::new returns that error unchanged after
\* that single provider call.
C5_ProviderErrorUnchanged ==
    (IsContextNew /\ calls # <<>> /\ calls[1].ret.k = "Err") =>
        /\ Len(calls) = 1
        /\ calls[1].provider = SessionProvider
        /\ calls[1].op = "new"
        /\ last.outcome = "return"
        /\ last.result = calls[1].ret

C5_Witness ==
    /\ IsContextNew
    /\ last.args.events_loop.is_wayland
    /\ last.args.gl_attr.sharing # <<>>
    /\ Len(calls) = 1
    /\ calls[1].provider = "wayland"
    /\ calls[1].ret = Err([kind |-> "NotSupported", msg |-> "provider"])
    /\ last.result = Err([kind |-> "NotSupported", msg |-> "provider"])

\* The operation made exactly one provider call, the same-named operation of
\* the provider of the receiver's variant on the receiver's own provider
\* context, and returned what that call returned.
ForwardedUnchanged ==
    /\ Len(calls) = 1
    /\ calls[1].provider = ProviderOf(Receiver.tag)
    /\ calls[1].op = last.op
    /\ calls[1].self = Receiver.ctxt
    /\ last.outcome = "return"
    /\ last.result = calls[1].ret

\* C6 as stated: every forwarding operation of Context and HeadlessContext,
\* raw_handle included, makes one call to the matching provider and returns
\* that provider's result unchanged.
C6_EveryForwardUnchanged ==
    (last.type \in {"Context", "HeadlessContext"} /\ last.op \in ForwardingOps)
        => ForwardedUnchanged

\* C6 amended: every forwarding operation other than Context::raw_handle makes
\* one call, the same-named operation of the provider of the receiver's
\* variant, and returns its result unchanged.  Context::raw_handle calls the
\* matching windowed provider's raw_handle once and never the other windowed
\* provider, but returns a RawHandle built around the innermost native handle
\* (asking the nested GLX or EGL context of an X11 provider for it), or panics.
C6_ForwardsToMatchingProvider ==
    (last.type \in {"Context", "HeadlessContext"} /\ last.op \in ForwardingOps) =>
        IF last.type = "Context" /\ last.op = "raw_handle"
        THEN /\ Len(calls) >= 1
             /\ calls[1].provider = ProviderOf(Receiver.tag)
             /\ calls[1].op = "raw_handle"
             /\ calls[1].self = Receiver.ctxt
             /\ \A i \in DOMAIN calls :
                   /\ i > 1 => calls[i].provider \in {"glx", "egl"}
                   /\ calls[i].provider \notin
                         ({"x11", "wayland"} \ {ProviderOf(Receiver.tag)})
             /\ last.outcome = "return" =>
                   /\ last.result.k = "RawHandle"
                   /\ last.result.handle = calls[Len(calls)].ret
        ELSE ForwardedUnchanged

C6_Witness ==
    /\ last.type = "HeadlessContext" /\ last.op = "make_current"
    /\ headless[last.self].tag = "OsMesa"
    /\ calls[1].provider = "osmesa"
    /\ last.result = Err([kind |-> "ContextLost"])
    /\ \E i \in DOMAIN contexts : contexts[i].tag = "Wayland"

\* C7: resize on an X11-backed Context makes no provider call; on a
\* Wayland-backed Context it calls the Wayland provider's resize once with the
\* same width and height; it returns () in both cases and leaves every
\* instance as it was.
C7_Resize ==
    /\ []((last.type = "Context" /\ last.op = "resize") =>
            /\ last.outcome = "return"
            /\ last.result = Unit
            /\ Receiver.tag = "X" => calls = <<>>
            /\ Receiver.tag = "Wayland" =>
                  /\ Len(calls) = 1
                  /\ calls[1].provider = "wayland"
                  /\ calls[1].op = "resize"
                  /\ calls[1].self = Receiver.ctxt
                  /\ calls[1].args = last.args)
    /\ [][(last'.type = "Context" /\ last'.op = "resize") =>
            UNCHANGED <<contexts, headless, allocated>>]_vars

C7_Witness ==
    /\ last.type = "Context" /\ last.op = "resize"
    /\ contexts[last.self].tag = "Wayland"
    /\ last.args = [width |-> 800, height |-> 600]
    /\ calls[1].args = [width |-> 800, height |-> 600]
    /\ \E i \in DOMAIN contexts : contexts[i].tag = "X"

\* C8: every instance keeps the tag it was built with across every operation,
\* including later creations that name it as sharing target or see another
\* session type.
C8_TagFixed ==
    [][/\ \A i \in DOMAIN contexts :
             i \in DOMAIN contexts' /\ contexts'[i].tag = contexts[i].tag
       /\ \A i \in DOMAIN headless :
             i \in DOMAIN headless' /\ headless'[i].tag = headless[i].tag]_vars

C8_Witness ==
    /\ CrossBackend
    /\ last.args.target = 1
    /\ contexts[1].tag = "Wayland"
    /\ ~last.args.events_loop.is_wayland
    /\ Len(contexts) = 1

\* C9: no creation ever runs into an unreachable!() arm; when a windowed
\* creation re-projects a present sharing target, the target's tag is the
\* backend chosen for the new context and the provider receives the provider
\* context of that very target; headless creation never invokes its closure.
C9_UnreachableNeverRuns ==
    /\ (last.outcome = "panic") => last.result.why # "unreachable"
    /\ (IsContextNew /\ last.args.gl_attr.sharing # <<>> /\ ~CrossBackend) =>
          /\ contexts[last.args.target].tag = SessionTag
          /\ Len(calls) = 1
          /\ calls[1].provider = SessionProvider
          /\ calls[1].args.gl_attr.sharing = <<contexts[last.args.target].ctxt>>
    /\ (IsContextNew /\ last.args.gl_attr.sharing = <<>> /\ calls # <<>>) =>
          calls[1].args.gl_attr.sharing = <<>>

C9_Witness ==
    /\ IsContextNew /\ Succeeded
    /\ last.args.target = 1
    /\ contexts[1].tag = "X"
    /\ calls[1].provider = "x11"
    /\ calls[1].args.gl_attr.sharing = <<contexts[1].ctxt>>
    /\ Len(headless) = 0

\* C10: Context::raw_handle gives RawHandle::Egl on a Wayland-backed Context;
\* on an X11-backed Context it gives RawHandle::Glx when the nested context is
\* GLX, RawHandle::Egl when it is EGL, and panics when it is GlContext::None.
C10_RawHandle ==
    (last.type = "Context" /\ last.op = "raw_handle") =>
        /\ Receiver.tag = "Wayland" =>
              /\ last.outcome = "return"
              /\ last.result = RawHandleEgl(calls[1].ret)
        /\ (Receiver.tag = "X" /\ Receiver.ctxt.gl = "Glx") =>
              /\ last.outcome = "return"
              /\ last.result.tag = "Glx"
              /\ last.result.handle = calls[2].ret
        /\ (Receiver.tag = "X" /\ Receiver.ctxt.gl = "Egl") =>
              /\ last.outcome = "return"
              /\ last.result.tag = "Egl"
              /\ last.result.handle = calls[2].ret
        /\ (Receiver.tag = "X" /\ Receiver.ctxt.gl = "None") =>
              /\ last.outcome = "panic"
              /\ last.result.why = "panic!()"

C10_Witness ==
    /\ last.type = "Context" /\ last.op = "raw_handle"
    /\ contexts[last.self].tag = "X"
    /\ contexts[last.self].ctxt.gl = "None"
    /\ last.outcome = "panic"
    /\ \E i \in DOMAIN contexts : contexts[i].tag = "X" /\ contexts[i].ctxt.gl = "Glx"

====
